---- MODULE Spec2Model ----
(***************************************************************************)
(* Model of the MenuBuilder class of src/src/scripts/menuBuilder.js (the   *)
(* first class of the file, lines 4-1352): the three tables, the draft     *)
(* option buffer, the localStorage blob, the edit closures installed on    *)
(* the add/save buttons, and every handler that reads or writes them.      *)
(*                                                                         *)
(* JavaScript values are encoded as follows.  Numbers are integers; NaN,   *)
(* undefined and null in a numeric field are the three integers NaN,       *)
(* Undefined and Null, which no id, price or bound of the model uses.      *)
(* Strings are sequences of one-character strings, so that trim() and      *)
(* toLowerCase() are computed; a string field holding undefined or null    *)
(* is the one-element sequence UndefinedStr or NullStr.                    *)
(***************************************************************************)
EXTENDS Integers, Sequences, FiniteSets, TLC

VARIABLES categories, products, modifiers, currentOptions, storage, now,
          categoryEdit, productEdit, modifierEdit, outcome, lastEvent, events

vars == <<categories, products, modifiers, currentOptions, storage, now,
          categoryEdit, productEdit, modifierEdit, outcome, lastEvent, events>>

----------------------------------------------------------------------------
(* Bounds of the model *)

MaxEvents == 4
MaxClock == 2
MaxCategories == 2
MaxProducts == 2
MaxModifiers == 2
MaxOptions == 2

----------------------------------------------------------------------------
(* JavaScript values *)

NaN == -9
Undefined == -8
Null == -7

UndefinedStr == <<"undefined">>
NullStr == <<"null">>

\* truthiness of a numeric value: 0, NaN, undefined and null are falsy
Truthy(v) == v \notin {0, NaN, Undefined, Null}

\* truthiness of a string value: "", undefined and null are falsy
TruthyStr(s) == s \notin {<<>>, UndefinedStr, NullStr}

\* a || b on numbers
OrElse(a, b) == IF Truthy(a) THEN a ELSE b

\* a || b on strings
OrElseStr(a, b) == IF TruthyStr(a) THEN a ELSE b

\* a > b on numbers: any comparison with NaN or undefined is false, null is 0
ToNumber(v) == IF v = Null THEN 0 ELSE v

GreaterThan(a, b) ==
  /\ a \notin {NaN, Undefined}
  /\ b \notin {NaN, Undefined}
  /\ ToNumber(a) > ToNumber(b)

LessThan(a, b) == GreaterThan(b, a)

isNaN(v) == v \in {NaN, Undefined}

\* String.prototype.trim
RECURSIVE TrimStart(_)
TrimStart(s) ==
  IF s # <<>> /\ Head(s) = " " THEN TrimStart(Tail(s)) ELSE s

RECURSIVE TrimEnd(_)
TrimEnd(s) ==
  IF s # <<>> /\ s[Len(s)] = " " THEN TrimEnd(SubSeq(s, 1, Len(s) - 1)) ELSE s

trim(s) == TrimEnd(TrimStart(s))

\* String.prototype.toLowerCase
LowerChar(c) == CASE c = "A" -> "a" [] c = "B" -> "b" [] c = "P" -> "p" [] OTHER -> c

toLowerCase(s) == [i \in 1..Len(s) |-> LowerChar(s[i])]

\* Array.prototype.filter: the elements of seq satisfying keep, in order
filter(seq, keep(_)) == SelectSeq(seq, keep)

\* Array.prototype.some for a predicate that cannot throw
some(seq, p(_)) == \E i \in 1..Len(seq) : p(seq[i])

\* Array.prototype.find as an index: the first index satisfying p, 0 if none
find(seq, p(_)) ==
  IF \E i \in 1..Len(seq) : p(seq[i])
  THEN CHOOSE i \in 1..Len(seq) : p(seq[i]) /\ \A j \in 1..(i - 1) : ~p(seq[j])
  ELSE 0

\* Where the object at index idx of seq sits after seq.filter(keep); 0 when
\* it was filtered out (or idx was 0): the closure then holds a detached object
Relocate(seq, keep(_), idx) ==
  IF idx = 0 \/ ~keep(seq[idx]) THEN 0
  ELSE Cardinality({j \in 1..idx : keep(seq[j])})

----------------------------------------------------------------------------
(* The store: the fields of the MenuBuilder object, the localStorage key    *)
(* and the closures that the edit functions install on the buttons          *)

\* a === b
StrictEquals(a, b) == a = b /\ a # NaN

\* no edit closure installed on a button (its onclick is null)
NoEdit == [active |-> FALSE, id |-> 0, target |-> 0]

\* localStorage without the key 'menuBuilderData'
NoBlob == [present |-> FALSE, categories |-> <<>>, products |-> <<>>,
           modifiers |-> <<>>, lastUpdated |-> 0]

\* the fields read and written by the handlers, as one value
Store == [categories |-> categories, products |-> products,
          modifiers |-> modifiers, currentOptions |-> currentOptions,
          storage |-> storage, categoryEdit |-> categoryEdit,
          productEdit |-> productEdit, modifierEdit |-> modifierEdit,
          outcome |-> <<>>]

\* showToast(message, type): the type of the toast is all that is kept
showToast(s, type) == [s EXCEPT !.outcome = Append(@, type)]

\* an exception that leaves the handler (a TypeError nobody catches)
Throw(s) == [s EXCEPT !.outcome = Append(@, "throw")]

\* JSON.stringify of a number: NaN becomes null
JsonNumber(v) == IF v = NaN THEN Null ELSE v

JsonOption(o) == [id |-> JsonNumber(o.id), label |-> o.label,
                  value |-> JsonNumber(o.value)]

JsonCategory(c) == [id |-> JsonNumber(c.id), name |-> c.name]

JsonProduct(p) == [id |-> JsonNumber(p.id), categoryId |-> JsonNumber(p.categoryId),
                   name |-> p.name, description |-> p.description,
                   price |-> JsonNumber(p.price), image |-> p.image]

JsonModifier(m) == [id |-> JsonNumber(m.id), productId |-> JsonNumber(m.productId),
                    name |-> m.name, min |-> JsonNumber(m.min),
                    max |-> JsonNumber(m.max), type |-> JsonNumber(m.type),
                    position |-> JsonNumber(m.position),
                    options |-> [i \in 1..Len(m.options) |-> JsonOption(m.options[i])]]

saveToLocalStorage(s, t) ==
  [s EXCEPT !.storage =
     [present |-> TRUE,
      categories |-> [i \in 1..Len(s.categories) |-> JsonCategory(s.categories[i])],
      products |-> [i \in 1..Len(s.products) |-> JsonProduct(s.products[i])],
      modifiers |-> [i \in 1..Len(s.modifiers) |-> JsonModifier(s.modifiers[i])],
      lastUpdated |-> t]]

\* constructor and init: empty fields, fresh buttons, then the blob is read
loadFromLocalStorage(s) ==
  IF s.storage.present
  THEN showToast([s EXCEPT !.categories = s.storage.categories,
                           !.products = s.storage.products,
                           !.modifiers = s.storage.modifiers], "success")
  ELSE s

constructor(s) ==
  loadFromLocalStorage([s EXCEPT !.categories = <<>>, !.products = <<>>,
                                 !.modifiers = <<>>, !.currentOptions = <<>>,
                                 !.categoryEdit = NoEdit, !.productEdit = NoEdit,
                                 !.modifierEdit = NoEdit])

----------------------------------------------------------------------------
(* Category functions *)

\* categories.some(cat => consider(cat) && cat.name.toLowerCase() === lower),
\* evaluated in table order: "yes", "no", or "throw" when toLowerCase is
\* called on a name that is undefined before a match is found
NameTaken(cats, name, consider(_)) ==
  LET hit(i) == consider(cats[i]) /\
                (cats[i].name = UndefinedStr \/ toLowerCase(cats[i].name) = toLowerCase(name))
      first == find([i \in 1..Len(cats) |-> i], hit)
  IN IF first = 0 THEN "no"
     ELSE IF cats[first].name = UndefinedStr THEN "throw" ELSE "yes"

AnyRecord(r) == TRUE

addCategory(s, raw, t) ==
  LET name == trim(raw)
      taken == NameTaken(s.categories, name, AnyRecord)
  IN IF name = <<>> THEN showToast(s, "error")
     ELSE IF taken = "throw" THEN Throw(s)
     ELSE IF taken = "yes" THEN showToast(s, "error")
     ELSE showToast(
            saveToLocalStorage(
              [s EXCEPT !.categories = Append(@, [id |-> t, name |-> name])], t),
            "success")

\* deleteCategory that removes the category with
\* categories.splice(categories.findIndex(cat => cat.id === id), 1): for an
\* id that is not found the index is -1 and the last category is removed
deleteCategorySplice(s, id, t) ==
  LET isId(cat) == StrictEquals(cat.id, id)
      idx == find(s.categories, isId)
      gone == IF idx = 0 THEN Len(s.categories) ELSE idx
      cats == [i \in 1..(Len(s.categories) - (IF gone = 0 THEN 0 ELSE 1)) |->
                 IF i < gone THEN s.categories[i] ELSE s.categories[i + 1]]
      keepProd(prod) == ~StrictEquals(prod.categoryId, id)
      prods == filter(s.products, keepProd)
      keepMod(mod) == ~\E i \in 1..Len(prods) : StrictEquals(prods[i].id, mod.productId)
  IN showToast(
       saveToLocalStorage(
         [s EXCEPT !.categories = cats,
                   !.products = prods,
                   !.modifiers = filter(s.modifiers, keepMod),
                   !.categoryEdit.target = 0,
                   !.productEdit.target = Relocate(s.products, keepProd, @),
                   !.modifierEdit.target = Relocate(s.modifiers, keepMod, @)], t),
       "success")

deleteCategory(s, id, t) ==
  LET keepCat(cat) == ~StrictEquals(cat.id, id)
      keepProd(prod) == ~StrictEquals(prod.categoryId, id)
      prods == filter(s.products, keepProd)
      keepMod(mod) == ~\E i \in 1..Len(prods) : StrictEquals(prods[i].id, mod.productId)
  IN showToast(
       saveToLocalStorage(
         [s EXCEPT !.categories = filter(s.categories, keepCat),
                   !.products = prods,
                   !.modifiers = filter(s.modifiers, keepMod),
                   !.categoryEdit.target = Relocate(s.categories, keepCat, @),
                   !.productEdit.target = Relocate(s.products, keepProd, @),
                   !.modifierEdit.target = Relocate(s.modifiers, keepMod, @)], t),
       "success")

\* editCategory(id): installs the update closure on the add button
editCategory(s, id) ==
  LET isId(cat) == StrictEquals(cat.id, id)
      idx == find(s.categories, isId)
  IN IF idx = 0 THEN s
     ELSE [s EXCEPT !.categoryEdit = [active |-> TRUE, id |-> id, target |-> idx]]

\* the closure of editCategory (lines 274-310), run with the text of the
\* name field; updateCategoryOptions is not a method of the class, so the
\* call on line 293 throws after the name was assigned
updateCategory(s, raw) ==
  LET id == s.categoryEdit.id
      target == s.categoryEdit.target
      newName == trim(raw)
      other(cat) == ~StrictEquals(cat.id, id)
      taken == NameTaken(s.categories, newName, other)
  IN IF newName = <<>> THEN showToast(s, "error")
     ELSE IF taken = "throw" THEN Throw(s)
     ELSE IF taken = "yes" THEN showToast(s, "error")
     ELSE Throw(IF target = 0 THEN s
                ELSE [s EXCEPT !.categories[target].name = newName])

\* the cancel button of editCategory (lines 318-330)
cancelCategoryEdit(s) == [s EXCEPT !.categoryEdit = NoEdit]

\* a click on #add-category-btn: the listener of bindEvents (line 76) runs
\* first, then the onclick closure when one is installed; a successful
\* addCategory has emptied the name field by then (line 183)
clickAddCategory(s, raw, t) ==
  LET s1 == addCategory(s, raw, t)
      field == IF s1.outcome = <<"success">> THEN <<>> ELSE raw
  IN IF s.categoryEdit.active THEN updateCategory(s1, field) ELSE s1

----------------------------------------------------------------------------
(* Reading numbers from form fields *)

DigitChars == {"0", "1", "2", "3", "4", "5", "6", "7", "8", "9"}

DigitValue(c) ==
  CASE c = "0" -> 0 [] c = "1" -> 1 [] c = "2" -> 2 [] c = "3" -> 3 [] c = "4" -> 4
    [] c = "5" -> 5 [] c = "6" -> 6 [] c = "7" -> 7 [] c = "8" -> 8 [] c = "9" -> 9

RECURSIVE ParseDigits(_, _)
ParseDigits(s, acc) ==
  IF s = <<>> \/ Head(s) \notin DigitChars THEN acc
  ELSE ParseDigits(Tail(s), acc * 10 + DigitValue(Head(s)))

\* parseInt(text): leading blanks, an optional sign, then the leading digits;
\* NaN when there is no digit (also for undefined, which reads "undefined")
parseInt(text) ==
  LET s == TrimStart(text)
      negative == s # <<>> /\ Head(s) = "-"
      body == IF negative THEN Tail(s) ELSE s
  IN IF body = <<>> \/ Head(body) \notin DigitChars THEN NaN
     ELSE IF negative THEN 0 - ParseDigits(body, 0) ELSE ParseDigits(body, 0)

\* parseFloat(text); the field texts of the model carry no fraction
parseFloat(text) == parseInt(text)

----------------------------------------------------------------------------
(* Product functions *)

\* the product form after lines 412-416 (or 596-600) emptied it
EmptyProductForm == [category |-> <<>>, name |-> <<>>, description |-> <<>>,
                     price |-> <<>>, image |-> <<>>]

addProduct(s, f, t) ==
  LET categoryId == parseInt(f.category)
      name == trim(f.name)
      description == trim(f.description)
      price == parseFloat(f.price)
      image == trim(f.image)
  IN IF ~Truthy(categoryId) THEN showToast(s, "error")
     ELSE IF name = <<>> THEN showToast(s, "error")
     ELSE IF description = <<>> THEN showToast(s, "error")
     ELSE IF isNaN(price) \/ LessThan(price, 0) THEN showToast(s, "error")
     ELSE showToast(
            saveToLocalStorage(
              [s EXCEPT !.products =
                 Append(@, [id |-> t, categoryId |-> categoryId, name |-> name,
                            description |-> description, price |-> price,
                            image |-> image])], t),
            "success")

\* deleteProduct without the filter of line 492: the modifiers are kept
deleteProductNoCascade(s, id, t) ==
  LET keepProd(prod) == ~StrictEquals(prod.id, id)
  IN showToast(
       saveToLocalStorage(
         [s EXCEPT !.products = filter(s.products, keepProd),
                   !.productEdit.target = Relocate(s.products, keepProd, @)], t),
       "success")

deleteProduct(s, id, t) ==
  LET keepProd(prod) == ~StrictEquals(prod.id, id)
      keepMod(mod) == ~StrictEquals(mod.productId, id)
  IN showToast(
       saveToLocalStorage(
         [s EXCEPT !.products = filter(s.products, keepProd),
                   !.modifiers = filter(s.modifiers, keepMod),
                   !.productEdit.target = Relocate(s.products, keepProd, @),
                   !.modifierEdit.target = Relocate(s.modifiers, keepMod, @)], t),
       "success")

\* editProduct(id): installs the update closure on the add button
editProduct(s, id) ==
  LET isId(p) == StrictEquals(p.id, id)
      idx == find(s.products, isId)
  IN IF idx = 0 THEN s
     ELSE [s EXCEPT !.productEdit = [active |-> TRUE, id |-> id, target |-> idx]]

\* products.find(p => p.id !== id && p.name.toLowerCase() === lower &&
\* p.categoryId === categoryId), in table order: "yes", "no" or "throw"
DuplicateProduct(prods, id, name, categoryId) ==
  LET reached(i) == ~StrictEquals(prods[i].id, id)
      hit(i) == reached(i) /\
                (prods[i].name = UndefinedStr \/
                 (toLowerCase(prods[i].name) = toLowerCase(name) /\
                  StrictEquals(prods[i].categoryId, categoryId)))
      first == find([i \in 1..Len(prods) |-> i], hit)
  IN IF first = 0 THEN "no"
     ELSE IF prods[first].name = UndefinedStr THEN "throw" ELSE "yes"

\* the closure of editProduct (lines 541-612); renderPreview is not a method
\* of the class, so the call on line 591 throws after the fields were assigned
updateProduct(s, f) ==
  LET id == s.productEdit.id
      target == s.productEdit.target
      categoryId == parseInt(f.category)
      name == trim(f.name)
      description == trim(f.description)
      price == parseFloat(f.price)
      image == OrElseStr(trim(f.image), NullStr)
      duplicate == DuplicateProduct(s.products, id, name, categoryId)
  IN IF ~Truthy(categoryId) THEN showToast(s, "error")
     ELSE IF name = <<>> THEN showToast(s, "error")
     ELSE IF description = <<>> THEN showToast(s, "error")
     ELSE IF isNaN(price) \/ ~GreaterThan(price, 0) THEN showToast(s, "error")
     ELSE IF duplicate = "throw" THEN Throw(s)
     ELSE IF duplicate = "yes" THEN showToast(s, "error")
     ELSE Throw(IF target = 0 THEN s
                ELSE [s EXCEPT !.products[target] =
                        [id |-> @.id, categoryId |-> categoryId, name |-> name,
                         description |-> description, price |-> price,
                         image |-> image]])

\* the cancel button of editProduct (lines 620-636)
cancelProductEdit(s) == [s EXCEPT !.productEdit = NoEdit]

\* a click on #add-product-btn: the listener of bindEvents (line 82) runs
\* first, then the onclick closure when one is installed; a successful
\* addProduct has emptied the form by then (lines 412-416)
clickAddProduct(s, f, t) ==
  LET s1 == addProduct(s, f, t)
      form == IF s1.outcome = <<"success">> THEN EmptyProductForm ELSE f
  IN IF s.productEdit.active THEN updateProduct(s1, form) ELSE s1

----------------------------------------------------------------------------
(* Modifier functions *)

\* addOption when editModifier assigns modifier.options itself to
\* this.currentOptions (line 894 without the spread): the push of line 674
\* lands in the array of the edited modifier too
addOptionAliased(s, f, t) ==
  LET label == trim(f.label)
      value == OrElse(parseFloat(f.value), 0)
      option == [id |-> t, label |-> label, value |-> value]
      target == s.modifierEdit.target
  IN IF label = <<>> THEN showToast(s, "error")
     ELSE IF s.modifierEdit.active /\ target # 0
     THEN showToast([s EXCEPT !.currentOptions = Append(@, option),
                              !.modifiers[target].options = Append(@, option)],
                    "success")
     ELSE showToast([s EXCEPT !.currentOptions = Append(@, option)], "success")

addOption(s, f, t) ==
  LET label == trim(f.label)
      value == OrElse(parseFloat(f.value), 0)
  IN IF label = <<>> THEN showToast(s, "error")
     ELSE showToast(
            [s EXCEPT !.currentOptions =
               Append(@, [id |-> t, label |-> label, value |-> value])],
            "success")

removeOption(s, id) ==
  LET keep(opt) == ~StrictEquals(opt.id, id)
  IN [s EXCEPT !.currentOptions = filter(s.currentOptions, keep)]

\* the modifier form after lines 760-768 reset it
ResetModifierForm == [product |-> <<>>, name |-> <<>>, min |-> <<"0">>,
                      max |-> <<"1">>, type |-> <<"1">>, position |-> <<"1">>]

\* saveModifier without the check of lines 740-743
saveModifierAnyOptions(s, f, t) ==
  LET productId == parseInt(f.product)
      name == trim(f.name)
      min == parseInt(f.min)
      max == parseInt(f.max)
      type == parseInt(f.type)
      position == parseInt(f.position)
  IN IF ~Truthy(productId) THEN showToast(s, "error")
     ELSE IF name = <<>> THEN showToast(s, "error")
     ELSE IF GreaterThan(min, max) THEN showToast(s, "error")
     ELSE showToast(
            saveToLocalStorage(
              [s EXCEPT !.modifiers =
                 Append(@, [id |-> t, productId |-> productId, name |-> name,
                            min |-> min, max |-> max, type |-> type,
                            position |-> position, options |-> s.currentOptions]),
                        !.currentOptions = <<>>], t),
            "success")

\* saveModifier without the check of lines 735-738
saveModifierAnyBounds(s, f, t) ==
  LET productId == parseInt(f.product)
      name == trim(f.name)
      min == parseInt(f.min)
      max == parseInt(f.max)
      type == parseInt(f.type)
      position == parseInt(f.position)
  IN IF ~Truthy(productId) THEN showToast(s, "error")
     ELSE IF name = <<>> THEN showToast(s, "error")
     ELSE IF Len(s.currentOptions) = 0 THEN showToast(s, "error")
     ELSE showToast(
            saveToLocalStorage(
              [s EXCEPT !.modifiers =
                 Append(@, [id |-> t, productId |-> productId, name |-> name,
                            min |-> min, max |-> max, type |-> type,
                            position |-> position, options |-> s.currentOptions]),
                        !.currentOptions = <<>>], t),
            "success")

\* saveModifier without the assignment of line 770: the buffer is kept
saveModifierKeepsBuffer(s, f, t) ==
  LET productId == parseInt(f.product)
      name == trim(f.name)
      min == parseInt(f.min)
      max == parseInt(f.max)
      type == parseInt(f.type)
      position == parseInt(f.position)
  IN IF ~Truthy(productId) THEN showToast(s, "error")
     ELSE IF name = <<>> THEN showToast(s, "error")
     ELSE IF GreaterThan(min, max) THEN showToast(s, "error")
     ELSE IF Len(s.currentOptions) = 0 THEN showToast(s, "error")
     ELSE showToast(
            saveToLocalStorage(
              [s EXCEPT !.modifiers =
                 Append(@, [id |-> t, productId |-> productId, name |-> name,
                            min |-> min, max |-> max, type |-> type,
                            position |-> position, options |-> s.currentOptions])],
              t),
            "success")

saveModifier(s, f, t) ==
  LET productId == parseInt(f.product)
      name == trim(f.name)
      min == parseInt(f.min)
      max == parseInt(f.max)
      type == parseInt(f.type)
      position == parseInt(f.position)
  IN IF ~Truthy(productId) THEN showToast(s, "error")
     ELSE IF name = <<>> THEN showToast(s, "error")
     ELSE IF GreaterThan(min, max) THEN showToast(s, "error")
     ELSE IF Len(s.currentOptions) = 0 THEN showToast(s, "error")
     ELSE showToast(
            saveToLocalStorage(
              [s EXCEPT !.modifiers =
                 Append(@, [id |-> t, productId |-> productId, name |-> name,
                            min |-> min, max |-> max, type |-> type,
                            position |-> position, options |-> s.currentOptions]),
                        !.currentOptions = <<>>], t),
            "success")

\* deleteModifier that also resets the draft buffer, as saveModifier does
deleteModifierClearsBuffer(s, id, t) ==
  LET keepMod(mod) == ~StrictEquals(mod.id, id)
  IN showToast(
       saveToLocalStorage(
         [s EXCEPT !.modifiers = filter(s.modifiers, keepMod),
                   !.currentOptions = <<>>,
                   !.modifierEdit.target = Relocate(s.modifiers, keepMod, @)], t),
       "success")

deleteModifier(s, id, t) ==
  LET keepMod(mod) == ~StrictEquals(mod.id, id)
  IN showToast(
       saveToLocalStorage(
         [s EXCEPT !.modifiers = filter(s.modifiers, keepMod),
                   !.modifierEdit.target = Relocate(s.modifiers, keepMod, @)], t),
       "success")

\* editModifier(id): loads the options into the draft buffer and installs
\* the update closure on the save button
editModifier(s, id) ==
  LET isId(m) == StrictEquals(m.id, id)
      idx == find(s.modifiers, isId)
  IN IF idx = 0 THEN s
     ELSE [s EXCEPT !.currentOptions = s.modifiers[idx].options,
                    !.modifierEdit = [active |-> TRUE, id |-> id, target |-> idx]]

\* the closure of editModifier (lines 911-978); renderPreview is not a method
\* of the class, so the call on line 951 throws after the fields were assigned
updateModifier(s, f) ==
  LET target == s.modifierEdit.target
      productId == parseInt(f.product)
      name == trim(f.name)
      min == parseInt(f.min)
      max == parseInt(f.max)
      type == parseInt(f.type)
      position == parseInt(f.position)
  IN IF ~Truthy(productId) THEN showToast(s, "error")
     ELSE IF name = <<>> THEN showToast(s, "error")
     ELSE IF GreaterThan(min, max) THEN showToast(s, "error")
     ELSE IF Len(s.currentOptions) = 0 THEN showToast(s, "error")
     ELSE Throw(IF target = 0 THEN s
                ELSE [s EXCEPT !.modifiers[target] =
                        [id |-> @.id, productId |-> productId, name |-> name,
                         min |-> min, max |-> max, type |-> type,
                         position |-> position, options |-> s.currentOptions]])

\* the cancel button of editModifier (lines 986-1008)
cancelModifierEdit(s) == [s EXCEPT !.currentOptions = <<>>, !.modifierEdit = NoEdit]

\* a click on #save-modifier-btn: the listener of bindEvents (line 87) runs
\* first, then the onclick closure when one is installed; a successful
\* saveModifier has reset the form by then (lines 760-768)
clickSaveModifier(s, f, t) ==
  LET s1 == saveModifier(s, f, t)
      form == IF s1.outcome = <<"success">> THEN ResetModifierForm ELSE f
  IN IF s.modifierEdit.active THEN updateModifier(s1, form) ELSE s1

\* clearAllData without the removeItem of line 1150
clearAllDataKeepsBlob(s) ==
  showToast([s EXCEPT !.categories = <<>>, !.products = <<>>, !.modifiers = <<>>,
                      !.currentOptions = <<>>,
                      !.categoryEdit.target = 0, !.productEdit.target = 0,
                      !.modifierEdit.target = 0], "success")

\* clearAllData, once the confirm dialog was accepted
clearAllData(s) ==
  showToast([s EXCEPT !.categories = <<>>, !.products = <<>>, !.modifiers = <<>>,
                      !.currentOptions = <<>>, !.storage = NoBlob,
                      !.categoryEdit.target = 0, !.productEdit.target = 0,
                      !.modifierEdit.target = 0], "success")

----------------------------------------------------------------------------
(* Export and import.  A text is kept as what JSON.parse makes of it: its   *)
(* kind ("blank", "garbage" for text that does not parse, "null", "nomenu"  *)
(* for a value without a menu array, "menu") and the entries of the menu    *)
(* array.  A field absent from an object reads undefined; an absent array   *)
(* is the empty sequence; a null array element is NullEntry.                *)

NullEntry == [null |-> TRUE]

\* generateJSON without the filter(Boolean) of line 1193 and the return null
\* of line 1165: a category without products is written with products: []
generateJSONKeepsEmpty(s, t) ==
  LET optionOut(o) == [id |-> o.id, label |-> o.label, value |-> o.value]
      modifierOut(m) ==
        [id |-> m.id, name |-> m.name, min |-> m.min, max |-> m.max,
         type |-> m.type, position |-> m.position,
         options |-> [i \in 1..Len(m.options) |-> optionOut(m.options[i])]]
      productOut(p) ==
        LET ofProduct(mod) == StrictEquals(mod.productId, p.id)
            mods == filter(s.modifiers, ofProduct)
        IN [id |-> p.id, name |-> p.name, description |-> p.description,
            price |-> p.price, image |-> OrElseStr(p.image, NullStr),
            modifiers |-> [i \in 1..Len(mods) |-> modifierOut(mods[i])]]
      categoryOut(c) ==
        LET ofCategory(prod) == StrictEquals(prod.categoryId, c.id)
            prods == filter(s.products, ofCategory)
        IN [id |-> c.id, name |-> c.name,
            products |-> [i \in 1..Len(prods) |-> productOut(prods[i])]]
  IN [menu |-> [i \in 1..Len(s.categories) |-> categoryOut(s.categories[i])],
      metadata |-> [created |-> t,
                    totalCategories |-> Len(s.categories),
                    totalProducts |-> Len(s.products),
                    totalModifiers |-> Len(s.modifiers)]]

generateJSON(s, t) ==
  LET optionOut(o) == [id |-> o.id, label |-> o.label, value |-> o.value]
      modifierOut(m) ==
        [id |-> m.id, name |-> m.name, min |-> m.min, max |-> m.max,
         type |-> m.type, position |-> m.position,
         options |-> [i \in 1..Len(m.options) |-> optionOut(m.options[i])]]
      productOut(p) ==
        LET ofProduct(mod) == StrictEquals(mod.productId, p.id)
            mods == filter(s.modifiers, ofProduct)
        IN [id |-> p.id, name |-> p.name, description |-> p.description,
            price |-> p.price, image |-> OrElseStr(p.image, NullStr),
            modifiers |-> [i \in 1..Len(mods) |-> modifierOut(mods[i])]]
      categoryOut(c) ==
        LET ofCategory(prod) == StrictEquals(prod.categoryId, c.id)
            prods == filter(s.products, ofCategory)
        IN [id |-> c.id, name |-> c.name,
            products |-> [i \in 1..Len(prods) |-> productOut(prods[i])]]
      hasProducts(c) ==
        \E i \in 1..Len(s.products) : StrictEquals(s.products[i].categoryId, c.id)
      kept == filter(s.categories, hasProducts)
  IN [menu |-> [i \in 1..Len(kept) |-> categoryOut(kept[i])],
      metadata |-> [created |-> t,
                    totalCategories |-> Len(s.categories),
                    totalProducts |-> Len(s.products),
                    totalModifiers |-> Len(s.modifiers)]]

\* JSON.parse(JSON.stringify(generateJSON())): the text a user copies from
\* the export step and pastes into the import field
JsonText(export) ==
  LET optionText(o) == [id |-> JsonNumber(o.id), label |-> o.label,
                        value |-> JsonNumber(o.value)]
      modifierText(m) ==
        [id |-> JsonNumber(m.id), name |-> m.name, min |-> JsonNumber(m.min),
         max |-> JsonNumber(m.max), type |-> JsonNumber(m.type),
         position |-> JsonNumber(m.position),
         options |-> [i \in 1..Len(m.options) |-> optionText(m.options[i])]]
      productText(p) ==
        [id |-> JsonNumber(p.id), name |-> p.name, description |-> p.description,
         price |-> JsonNumber(p.price), image |-> p.image,
         modifiers |-> [i \in 1..Len(p.modifiers) |-> modifierText(p.modifiers[i])]]
      categoryText(c) ==
        [id |-> JsonNumber(c.id), name |-> c.name,
         products |-> [i \in 1..Len(c.products) |-> productText(c.products[i])]]
  IN [kind |-> "menu",
      menu |-> [i \in 1..Len(export.menu) |-> categoryText(export.menu[i])]]

\* copyJSON over a generateJSON that empties this.currentOptions while it
\* reads the tables
copyJSONTouchesBuffer(s, t) ==
  [store |-> showToast([s EXCEPT !.currentOptions = <<>>], "success"),
   clipboard |-> generateJSON(s, t)]

\* copyJSON (lines 1220-1236): what generateJSON returned goes, as text, to
\* the clipboard; downloadJSON (1242-1257) differs only in where the text goes
copyJSON(s, t) ==
  [store |-> showToast(s, "success"), clipboard |-> generateJSON(s, t)]

\* modifier.options.map(...) of lines 1319-1323
importOptions(opts, t) ==
  [i \in 1..Len(opts) |->
     [id |-> OrElse(opts[i].id, t), label |-> opts[i].label,
      value |-> OrElse(opts[i].value, 0)]]

\* product.modifiers.forEach(...) of lines 1305-1327: the modifiers pushed,
\* and whether a null element stopped the loop with a TypeError
RECURSIVE importModifiers(_, _, _)
importModifiers(mods, productId, t) ==
  IF mods = <<>> THEN [modifiers |-> <<>>, thrown |-> FALSE]
  ELSE LET m == Head(mods)
       IN IF m = NullEntry \/ (\E i \in 1..Len(m.options) : m.options[i] = NullEntry)
          THEN [modifiers |-> <<>>, thrown |-> TRUE]
          ELSE LET rest == importModifiers(Tail(mods), productId, t)
                   modifierData ==
                     [id |-> OrElse(m.id, t), productId |-> productId,
                      name |-> m.name, min |-> OrElse(m.min, 0),
                      max |-> OrElse(m.max, 1), type |-> OrElse(m.type, 1),
                      position |-> OrElse(m.position, 1),
                      options |-> importOptions(m.options, t)]
               IN [modifiers |-> <<modifierData>> \o rest.modifiers,
                   thrown |-> rest.thrown]

\* category.products.forEach(...) of lines 1293-1329
RECURSIVE importProducts(_, _, _)
importProducts(prods, categoryId, t) ==
  IF prods = <<>> THEN [products |-> <<>>, modifiers |-> <<>>, thrown |-> FALSE]
  ELSE LET p == Head(prods)
       IN IF p = NullEntry
          THEN [products |-> <<>>, modifiers |-> <<>>, thrown |-> TRUE]
          ELSE LET product ==
                     [id |-> OrElse(p.id, t), categoryId |-> categoryId,
                      name |-> p.name,
                      description |-> OrElseStr(p.description, <<>>),
                      price |-> OrElse(p.price, 0),
                      image |-> OrElseStr(p.image, <<>>)]
                   mods == importModifiers(p.modifiers, p.id, t)
                   rest == importProducts(Tail(prods), categoryId, t)
               IN IF mods.thrown
                  THEN [products |-> <<product>>, modifiers |-> mods.modifiers,
                        thrown |-> TRUE]
                  ELSE [products |-> <<product>> \o rest.products,
                        modifiers |-> mods.modifiers \o rest.modifiers,
                        thrown |-> rest.thrown]

\* jsonData.menu.forEach(...) of lines 1285-1331
RECURSIVE importMenu(_, _)
importMenu(menu, t) ==
  IF menu = <<>>
  THEN [categories |-> <<>>, products |-> <<>>, modifiers |-> <<>>, thrown |-> FALSE]
  ELSE LET c == Head(menu)
       IN IF c = NullEntry
          THEN [categories |-> <<>>, products |-> <<>>, modifiers |-> <<>>,
                thrown |-> TRUE]
          ELSE LET category == [id |-> OrElse(c.id, t), name |-> c.name]
                   prods == importProducts(c.products, c.id, t)
                   rest == importMenu(Tail(menu), t)
               IN IF prods.thrown
                  THEN [categories |-> <<category>>, products |-> prods.products,
                        modifiers |-> prods.modifiers, thrown |-> TRUE]
                  ELSE [categories |-> <<category>> \o rest.categories,
                        products |-> prods.products \o rest.products,
                        modifiers |-> prods.modifiers \o rest.modifiers,
                        thrown |-> rest.thrown]

\* importJSON without lines 1280-1282: the records of the document are
\* pushed after those the tables already hold
importJSONMerges(s, text, t) ==
  IF text.kind = "blank" THEN showToast(s, "error")
  ELSE IF text.kind \in {"garbage", "null"} THEN showToast(s, "error")
  ELSE IF text.kind = "nomenu" THEN showToast(s, "error")
  ELSE LET read == importMenu(text.menu, t)
           merged == [s EXCEPT !.categories = @ \o read.categories,
                               !.products = @ \o read.products,
                               !.modifiers = @ \o read.modifiers]
       IN IF read.thrown THEN showToast(merged, "error")
          ELSE showToast(saveToLocalStorage(merged, t), "success")

\* importJSON with lines 1280-1282 moved above the format check of line 1274:
\* the tables are emptied whatever the text turns out to be
importJSONEmptiesFirst(s, text, t) ==
  LET emptied == [s EXCEPT !.categories = <<>>, !.products = <<>>,
                           !.modifiers = <<>>]
  IN IF text.kind \in {"blank", "garbage", "null", "nomenu"}
     THEN showToast(emptied, "error")
     ELSE LET read == importMenu(text.menu, t)
              replaced == [s EXCEPT !.categories = read.categories,
                                    !.products = read.products,
                                    !.modifiers = read.modifiers,
                                    !.categoryEdit.target = 0,
                                    !.productEdit.target = 0,
                                    !.modifierEdit.target = 0]
          IN IF read.thrown THEN showToast(replaced, "error")
             ELSE showToast(saveToLocalStorage(replaced, t), "success")

\* importJSON with the text of the import field.  The tables are emptied on
\* lines 1280-1282 before the loop; the catch of line 1347 only shows a toast.
\* The render calls of lines 1334-1338 do not throw on the values of the model.
importJSON(s, text, t) ==
  IF text.kind = "blank" THEN showToast(s, "error")
  ELSE IF text.kind \in {"garbage", "null"} THEN showToast(s, "error")
  ELSE IF text.kind = "nomenu" THEN showToast(s, "error")
  ELSE LET read == importMenu(text.menu, t)
           replaced == [s EXCEPT !.categories = read.categories,
                                 !.products = read.products,
                                 !.modifiers = read.modifiers,
                                 !.categoryEdit.target = 0,
                                 !.productEdit.target = 0,
                                 !.modifierEdit.target = 0]
       IN IF read.thrown THEN showToast(replaced, "error")
          ELSE showToast(saveToLocalStorage(replaced, t), "success")

----------------------------------------------------------------------------
(* What the user types, selects and pastes.  The handlers are methods of   *)
(* the global window.menuBuilder and read the fields by value, so the      *)
(* value of a select and the id argument of a handler are free: they are   *)
(* not restricted to the options and rows the tables currently render.     *)

\* texts of the category name field
NameTexts == {<<" ">>, <<"a">>, <<" ", "A">>, <<"b">>}

\* ids passed by the inline onclick attributes of the table rows
IdArgs == 1..(MaxClock + 1)

\* fillings of the product form, for each selected category
CategoryTexts == {<<"1">>, <<"2">>}

ProductForms ==
  {[category |-> c, name |-> <<"p">>, description |-> <<"d">>,
    price |-> <<"2">>, image |-> <<>>] : c \in CategoryTexts}
  \cup
  {[category |-> <<"1">>, name |-> <<"P", " ">>, description |-> <<"d">>,
    price |-> <<"0">>, image |-> <<"u">>],
   [category |-> <<>>, name |-> <<"p">>, description |-> <<"d">>,
    price |-> <<"2">>, image |-> <<>>],
   [category |-> <<"1">>, name |-> <<" ">>, description |-> <<"d">>,
    price |-> <<"2">>, image |-> <<>>],
   [category |-> <<"1">>, name |-> <<"p">>, description |-> <<>>,
    price |-> <<"2">>, image |-> <<>>],
   [category |-> <<"1">>, name |-> <<"p">>, description |-> <<"d">>,
    price |-> <<>>, image |-> <<>>],
   [category |-> <<"1">>, name |-> <<"p">>, description |-> <<"d">>,
    price |-> <<"-", "1">>, image |-> <<>>]}

\* fillings of the option fields
OptionForms ==
  {[label |-> <<"x">>, value |-> <<"1">>],
   [label |-> <<"y", " ">>, value |-> <<>>],
   [label |-> <<" ">>, value |-> <<"1">>]}

\* fillings of the modifier form, for each selected product
ProductTexts == {<<"1">>, <<"2">>}

ModifierForms ==
  {[product |-> q, name |-> <<"m">>, min |-> <<"0">>, max |-> <<"1">>,
    type |-> <<"1">>, position |-> <<"1">>] : q \in ProductTexts}
  \cup
  {[product |-> q, name |-> <<"m", " ">>, min |-> <<"0">>, max |-> <<"0">>,
    type |-> <<"2">>, position |-> <<"0">>] : q \in ProductTexts}
  \cup
  {[product |-> <<>>, name |-> <<"m">>, min |-> <<"0">>, max |-> <<"1">>,
    type |-> <<"1">>, position |-> <<"1">>],
   [product |-> <<"1">>, name |-> <<" ">>, min |-> <<"0">>, max |-> <<"1">>,
    type |-> <<"1">>, position |-> <<"1">>],
   [product |-> <<"1">>, name |-> <<"m">>, min |-> <<"1">>, max |-> <<"0">>,
    type |-> <<"2">>, position |-> <<"0">>],
   [product |-> <<"2">>, name |-> <<"m">>, min |-> <<"2">>, max |-> <<"1">>,
    type |-> <<"1">>, position |-> <<"1">>],
   [product |-> <<"1">>, name |-> <<"m">>, min |-> <<>>, max |-> <<"1">>,
    type |-> <<"1">>, position |-> <<"1">>]}

\* the document of the second concrete scenario of the specification
TacoText ==
  [kind |-> "menu",
   menu |-> <<[id |-> 1, name |-> <<"a">>,
               products |-> <<[id |-> 2, name |-> <<"p">>,
                               description |-> UndefinedStr, price |-> 3,
                               image |-> UndefinedStr,
                               modifiers |-> <<[id |-> 3, name |-> <<"m">>,
                                                min |-> Undefined, max |-> Undefined,
                                                type |-> Undefined,
                                                position |-> Undefined,
                                                options |-> <<[id |-> 4,
                                                               label |-> <<"x">>,
                                                               value |-> 0]>>]>>]>>]>>]

\* a hand-written document without ids, with a repeated category name
NoIdText ==
  [kind |-> "menu",
   menu |-> <<[id |-> Undefined, name |-> <<"a">>,
               products |-> <<[id |-> Undefined, name |-> <<"p">>,
                               description |-> <<"d">>, price |-> 2,
                               image |-> UndefinedStr,
                               modifiers |-> <<[id |-> Undefined, name |-> <<"m">>,
                                                min |-> 0, max |-> 0,
                                                type |-> 2, position |-> 0,
                                                options |-> <<[id |-> Undefined,
                                                               label |-> <<"x">>,
                                                               value |-> Undefined]>>]>>]>>],
              [id |-> Undefined, name |-> <<"A">>, products |-> <<>>]>>]

\* a category without a name
NoNameText ==
  [kind |-> "menu",
   menu |-> <<[id |-> 1, name |-> UndefinedStr, products |-> <<>>]>>]

\* a valid entry followed by null
NullEntryText ==
  [kind |-> "menu",
   menu |-> <<[id |-> 2, name |-> <<"b">>, products |-> <<>>], NullEntry>>]

\* a well-formed document: two categories, a product and a modifier in each
MenuText ==
  [kind |-> "menu",
   menu |-> <<[id |-> 1, name |-> <<"a">>,
               products |-> <<[id |-> 1, name |-> <<"p">>,
                               description |-> <<"d">>, price |-> 2,
                               image |-> <<"u">>,
                               modifiers |-> <<[id |-> 1, name |-> <<"m">>,
                                                min |-> 1, max |-> 2,
                                                type |-> 2, position |-> 2,
                                                options |-> <<[id |-> 1,
                                                               label |-> <<"x">>,
                                                               value |-> 1],
                                                              [id |-> 2,
                                                               label |-> <<"y">>,
                                                               value |-> 0]>>]>>]>>],
              [id |-> 2, name |-> <<"b">>,
               products |-> <<[id |-> 2, name |-> <<"P">>,
                               description |-> <<"d">>, price |-> 0,
                               image |-> NullStr,
                               modifiers |-> <<[id |-> 2, name |-> <<"m">>,
                                                min |-> 0, max |-> 1,
                                                type |-> 1, position |-> 1,
                                                options |-> <<[id |-> 3,
                                                               label |-> <<"x">>,
                                                               value |-> 1]>>]>>]>>]>>]

FixedTexts ==
  {[kind |-> k, menu |-> <<>>] : k \in {"blank", "garbage", "null", "nomenu"}}
  \cup {TacoText, NoIdText, NoNameText, NullEntryText, MenuText}

----------------------------------------------------------------------------
(* The state machine: one action per event *)

Init ==
  /\ categories = <<>>
  /\ products = <<>>
  /\ modifiers = <<>>
  /\ currentOptions = <<>>
  /\ storage = NoBlob
  /\ now = 1
  /\ categoryEdit = NoEdit
  /\ productEdit = NoEdit
  /\ modifierEdit = NoEdit
  /\ outcome = <<>>
  /\ lastEvent = [name |-> "constructor", input |-> 0]
  /\ events = 0

\* the tables stay within the bounds of the model
WithinBounds(s) ==
  /\ Len(s.categories) <= MaxCategories
  /\ Len(s.products) <= MaxProducts
  /\ Len(s.modifiers) <= MaxModifiers
  /\ Len(s.currentOptions) <= MaxOptions
  /\ \A i \in 1..Len(s.modifiers) : Len(s.modifiers[i].options) <= MaxOptions

\* the handler ran to its end (or to its exception) and left the store s;
\* lastEvent keeps the handlers that ran and what the user gave them
Becomes(s, name, input) ==
  /\ events < MaxEvents
  /\ events' = events + 1
  /\ WithinBounds(s)
  /\ categories' = s.categories
  /\ products' = s.products
  /\ modifiers' = s.modifiers
  /\ currentOptions' = s.currentOptions
  /\ storage' = s.storage
  /\ categoryEdit' = s.categoryEdit
  /\ productEdit' = s.productEdit
  /\ modifierEdit' = s.modifierEdit
  /\ outcome' = s.outcome
  /\ lastEvent' = [name |-> name, input |-> input]
  /\ now' = now

\* Date.now() moves on between two events
Tick ==
  /\ now < MaxClock
  /\ events < MaxEvents
  /\ now' = now + 1
  /\ events' = events + 1
  /\ outcome' = <<>>
  /\ lastEvent' = [name |-> "tick", input |-> 0]
  /\ UNCHANGED <<categories, products, modifiers, currentOptions, storage,
                 categoryEdit, productEdit, modifierEdit>>

\* the event is named after the handlers that ran
ClickAddCategory == \E raw \in NameTexts :
  Becomes(clickAddCategory(Store, raw, now),
          IF categoryEdit.active THEN "updateCategory" ELSE "addCategory", raw)

\* Enter in the name field (line 77): addCategory alone, whatever the button holds
KeypressAddCategory == \E raw \in NameTexts :
  Becomes(addCategory(Store, raw, now), "addCategory", raw)

DeleteCategory == \E id \in IdArgs :
  Becomes(deleteCategory(Store, id, now), "deleteCategory", id)

EditCategory == \E id \in IdArgs :
  Becomes(editCategory(Store, id), "editCategory", id)

CancelCategoryEdit ==
  /\ categoryEdit.active
  /\ Becomes(cancelCategoryEdit(Store), "cancelCategoryEdit", 0)

ClickAddProduct == \E f \in ProductForms :
  Becomes(clickAddProduct(Store, f, now),
          IF productEdit.active THEN "updateProduct" ELSE "addProduct", f)

DeleteProduct == \E id \in IdArgs :
  Becomes(deleteProduct(Store, id, now), "deleteProduct", id)

EditProduct == \E id \in IdArgs :
  Becomes(editProduct(Store, id), "editProduct", id)

CancelProductEdit ==
  /\ productEdit.active
  /\ Becomes(cancelProductEdit(Store), "cancelProductEdit", 0)

AddOption == \E f \in OptionForms :
  Becomes(addOption(Store, f, now), "addOption", f)

RemoveOption == \E id \in IdArgs :
  Becomes(removeOption(Store, id), "removeOption", id)

ClickSaveModifier == \E f \in ModifierForms :
  Becomes(clickSaveModifier(Store, f, now),
          IF modifierEdit.active THEN "updateModifier" ELSE "saveModifier", f)

DeleteModifier == \E id \in IdArgs :
  Becomes(deleteModifier(Store, id, now), "deleteModifier", id)

EditModifier == \E id \in IdArgs :
  Becomes(editModifier(Store, id), "editModifier", id)

\* lastEvent keeps the draft buffer that the cancel discarded
CancelModifierEdit ==
  /\ modifierEdit.active
  /\ Becomes(cancelModifierEdit(Store), "cancelModifierEdit", currentOptions)

ClearAllData == Becomes(clearAllData(Store), "clearAllData", 0)

ImportJSON == \E text \in FixedTexts :
  Becomes(importJSON(Store, text, now), "importJSON", text)

\* the export of the current tables, copied and pasted into the import field
ImportExported ==
  Becomes(importJSON(Store, JsonText(generateJSON(Store, now)), now),
          "importExported", JsonText(generateJSON(Store, now)))

\* a click on #copy-json-btn; lastEvent keeps what generateJSON returned
CopyJSON ==
  Becomes(copyJSON(Store, now).store, "copyJSON", copyJSON(Store, now).clipboard)

\* the page is loaded again: a new MenuBuilder reads the blob
Reload == Becomes(constructor(Store), "constructor", 0)

Next ==
  \/ Tick
  \/ ClickAddCategory
  \/ KeypressAddCategory
  \/ DeleteCategory
  \/ EditCategory
  \/ CancelCategoryEdit
  \/ ClickAddProduct
  \/ DeleteProduct
  \/ EditProduct
  \/ CancelProductEdit
  \/ AddOption
  \/ RemoveOption
  \/ ClickSaveModifier
  \/ DeleteModifier
  \/ EditModifier
  \/ CancelModifierEdit
  \/ ClearAllData
  \/ ImportJSON
  \/ ImportExported
  \/ CopyJSON
  \/ Reload

Spec == Init /\ [][Next]_vars

----------------------------------------------------------------------------
(* Properties *)

\* the store after the step, for properties that apply a handler to it
StoreAfter == [categories |-> categories', products |-> products',
               modifiers |-> modifiers', currentOptions |-> currentOptions',
               storage |-> storage', categoryEdit |-> categoryEdit',
               productEdit |-> productEdit', modifierEdit |-> modifierEdit',
               outcome |-> <<>>]

TablesUnchanged ==
  /\ categories' = categories
  /\ products' = products
  /\ modifiers' = modifiers

\* C1: deleteCategory(id) removes exactly the category with that id, exactly
\* the products of that category and exactly the modifiers of those products;
\* every other record stays in its table, unchanged and in the same order.
C1_DeleteCategoryCascade ==
  [][lastEvent'.name = "deleteCategory" =>
       LET id == lastEvent'.input
           removed == {products[i].id : i \in {j \in 1..Len(products) :
                                                 products[j].categoryId = id}}
           keepCategory(c) == c.id # id
           keepProduct(p) == p.categoryId # id
           keepModifier(m) == m.productId \notin removed
       IN /\ categories' = SelectSeq(categories, keepCategory)
          /\ products' = SelectSeq(products, keepProduct)
          /\ modifiers' = SelectSeq(modifiers, keepModifier)]_vars

\* C2: in every reachable state every modifier's productId is the id of a
\* product of the products table.
C2_ModifierProductLive ==
  \A i \in 1..Len(modifiers) :
    \E j \in 1..Len(products) : products[j].id = modifiers[i].productId

\* C3: in every reachable state every product's categoryId is the id of a
\* category of the categories table, and addProduct fails and leaves the
\* products table unchanged when its categoryId is the id of no category.
C3_ProductCategoryLive ==
  /\ [](\A i \in 1..Len(products) :
          \E j \in 1..Len(categories) : categories[j].id = products[i].categoryId)
  /\ [][(/\ lastEvent'.name = "addProduct"
         /\ ~\E j \in 1..Len(categories) :
               categories[j].id = parseInt(lastEvent'.input.category))
        => (outcome' = <<"error">> /\ products' = products)]_vars

\* C4: when every category has a product, importing the export of the tables
\* leaves categories, products and modifiers (options included) with the same
\* ids, field values and order, and a second export and import changes nothing.
C4_RoundTrip ==
  [][(/\ lastEvent'.name = "importExported"
      /\ \A i \in 1..Len(categories) :
           \E j \in 1..Len(products) : products[j].categoryId = categories[i].id)
     => LET again == importJSON(StoreAfter,
                                JsonText(generateJSON(StoreAfter, now')), now')
        IN /\ TablesUnchanged
           /\ again.categories = categories'
           /\ again.products = products'
           /\ again.modifiers = modifiers']_vars

\* C5: whenever importJSON reports an error, whatever the text, the three
\* tables are as they were before the call.
C5_ImportErrorNoMutation ==
  [][(/\ lastEvent'.name \in {"importJSON", "importExported"}
      /\ outcome' = <<"error">>)
     => TablesUnchanged]_vars

\* C6: importJSON with a text that does not parse, or whose value has no menu
\* array, reports an error and leaves the tables, the draft buffer and the
\* blob as they were.
C6_ImportFormatError ==
  [][(/\ lastEvent'.name = "importJSON"
      /\ lastEvent'.input.kind \in {"blank", "garbage", "null", "nomenu"})
     => (/\ outcome' = <<"error">>
         /\ TablesUnchanged
         /\ currentOptions' = currentOptions
         /\ storage' = storage)]_vars

\* a rejected text arrived while the tables, the buffer and the blob held data
C6_Witness ==
  /\ lastEvent.name = "importJSON"
  /\ lastEvent.input.kind \in {"garbage", "null", "nomenu"}
  /\ outcome = <<"error">>
  /\ categories # <<>>
  /\ modifiers # <<>>
  /\ currentOptions # <<>>
  /\ storage.present

\* C7: addCategory with a name that is empty after trimming, or equal ignoring
\* case to the name of a category, fails and leaves the table and the blob
\* unchanged; otherwise it appends one category with the trimmed name.
C7_AddCategory ==
  [][lastEvent'.name = "addCategory" =>
       LET name == trim(lastEvent'.input)
           rejected ==
             \/ name = <<>>
             \/ \E i \in 1..Len(categories) :
                  /\ categories[i].name # UndefinedStr
                  /\ toLowerCase(categories[i].name) = toLowerCase(name)
       IN IF rejected
          THEN outcome' = <<"error">> /\ categories' = categories /\ storage' = storage
          ELSE /\ Len(categories') = Len(categories) + 1
               /\ SubSeq(categories', 1, Len(categories)) = categories
               /\ categories'[Len(categories')].name = name]_vars

\* C8: in every reachable state every category name is a non-empty string and
\* no two categories have names that are equal ignoring case.
C8_CategoryNamesUnique ==
  \A i \in 1..Len(categories) :
    /\ categories[i].name \notin {UndefinedStr, <<>>}
    /\ \A j \in 1..Len(categories) :
         (i # j /\ categories[j].name # UndefinedStr)
           => toLowerCase(categories[i].name) # toLowerCase(categories[j].name)

\* C9: addProduct with a name equal, ignoring case, to the name of a product
\* of the same category fails and leaves the products table unchanged.
C9_AddProductDuplicate ==
  [][(/\ lastEvent'.name = "addProduct"
      /\ \E i \in 1..Len(products) :
           /\ products[i].categoryId = parseInt(lastEvent'.input.category)
           /\ products[i].name # UndefinedStr
           /\ toLowerCase(products[i].name) = toLowerCase(trim(lastEvent'.input.name)))
     => (outcome' = <<"error">> /\ products' = products)]_vars

\* C10: saveModifier called while the draft buffer is empty fails, whatever
\* the form holds, and leaves the modifiers table, the buffer and the blob
\* unchanged.
C10_SaveModifierEmptyBuffer ==
  [][(/\ lastEvent'.name \in {"saveModifier", "updateModifier"}
      /\ currentOptions = <<>>)
     => (/\ outcome'[1] = "error"
         /\ modifiers' = modifiers
         /\ currentOptions' = currentOptions
         /\ storage' = storage)]_vars

\* a form that is valid but for the empty buffer was submitted and rejected
C10_Witness ==
  /\ lastEvent.name = "saveModifier"
  /\ outcome = <<"error">>
  /\ currentOptions = <<>>
  /\ \E j \in 1..Len(products) : products[j].id = parseInt(lastEvent.input.product)
  /\ trim(lastEvent.input.name) # <<>>
  /\ ~GreaterThan(parseInt(lastEvent.input.min), parseInt(lastEvent.input.max))

\* C11: in every reachable state every modifier of the table has integer min
\* and max with 0 <= min <= max, and at least one option.
C11_ModifierBounds ==
  \A i \in 1..Len(modifiers) :
    /\ modifiers[i].min \notin {NaN, Undefined, Null}
    /\ modifiers[i].max \notin {NaN, Undefined, Null}
    /\ 0 <= modifiers[i].min
    /\ modifiers[i].min <= modifiers[i].max
    /\ Len(modifiers[i].options) >= 1

\* C12: saveModifier with min > max is rejected whatever type and position
\* are, also when the draft buffer is non-empty and product and name are
\* valid; the modifiers table and the draft buffer are unchanged.
C12_SaveModifierMinAboveMax ==
  [][(/\ lastEvent'.name \in {"saveModifier", "updateModifier"}
      /\ parseInt(lastEvent'.input.min) \notin {NaN, Undefined, Null}
      /\ parseInt(lastEvent'.input.max) \notin {NaN, Undefined, Null}
      /\ parseInt(lastEvent'.input.min) > parseInt(lastEvent'.input.max))
     => (/\ outcome'[1] = "error"
         /\ modifiers' = modifiers
         /\ currentOptions' = currentOptions)]_vars

\* a form with a live product, a name and a filled buffer was rejected for
\* its bounds alone
C12_Witness ==
  /\ lastEvent.name = "saveModifier"
  /\ parseInt(lastEvent.input.min) > parseInt(lastEvent.input.max)
  /\ parseInt(lastEvent.input.max) >= 0
  /\ outcome = <<"error">>
  /\ currentOptions # <<>>
  /\ trim(lastEvent.input.name) # <<>>
  /\ \E j \in 1..Len(products) : products[j].id = parseInt(lastEvent.input.product)

\* C13: a successful saveModifier appends exactly one modifier whose options
\* are the options of the draft buffer in their append order and leaves the
\* buffer empty; addOption and removeOption never change a modifier of the
\* table.
C13_SaveModifierSnapshot ==
  [][/\ (/\ lastEvent'.name \in {"saveModifier", "updateModifier"}
         /\ saveModifier(Store, lastEvent'.input, now).outcome = <<"success">>)
        => (/\ Len(modifiers') = Len(modifiers) + 1
            /\ \A i \in 1..Len(modifiers) : modifiers'[i] = modifiers[i]
            /\ modifiers'[Len(modifiers')].options = currentOptions
            /\ currentOptions' = <<>>)
     /\ lastEvent'.name \in {"addOption", "removeOption"}
        => modifiers' = modifiers]_vars

\* two options were drafted and saved in their append order
C13_Witness ==
  /\ lastEvent.name = "saveModifier"
  /\ outcome = <<"success">>
  /\ currentOptions = <<>>
  /\ modifiers # <<>>
  /\ Len(modifiers[Len(modifiers)].options) = 2
  /\ modifiers[Len(modifiers)].options[1].label = <<"x">>
  /\ modifiers[Len(modifiers)].options[2].label = <<"y">>

\* C14: the menu of generateJSON holds, in table order, exactly the categories
\* that have a product; under each, in table order, exactly the products with
\* that categoryId; under each product, in table order, exactly the modifiers
\* with that productId, the empty list when there are none.
C14_ExportContents ==
  [][lastEvent'.name = "copyJSON" =>
       LET menu == lastEvent'.input.menu
           hasProduct(c) == \E j \in 1..Len(products) : products[j].categoryId = c.id
           kept == SelectSeq(categories, hasProduct)
       IN /\ Len(menu) = Len(kept)
          /\ \A i \in 1..Len(kept) :
               LET inCategory(p) == p.categoryId = kept[i].id
                   prods == SelectSeq(products, inCategory)
               IN /\ menu[i].id = kept[i].id
                  /\ menu[i].name = kept[i].name
                  /\ Len(menu[i].products) = Len(prods)
                  /\ \A j \in 1..Len(prods) :
                       LET ofProduct(m) == m.productId = prods[j].id
                           mods == SelectSeq(modifiers, ofProduct)
                           out == menu[i].products[j]
                       IN /\ out.id = prods[j].id
                          /\ out.name = prods[j].name
                          /\ out.price = prods[j].price
                          /\ Len(out.modifiers) = Len(mods)
                          /\ \A k \in 1..Len(mods) :
                               /\ out.modifiers[k].id = mods[k].id
                               /\ out.modifiers[k].name = mods[k].name
                               /\ out.modifiers[k].options = mods[k].options]_vars

\* an export that left out a category without products and wrote the empty
\* modifier list of a product
C14_Witness ==
  /\ lastEvent.name = "copyJSON"
  /\ Len(lastEvent.input.menu) = 1
  /\ Len(categories) = 2
  /\ \E j \in 1..Len(lastEvent.input.menu[1].products) :
       lastEvent.input.menu[1].products[j].modifiers = <<>>

\* C15: generateJSON has no side effects: the three tables, the draft buffer
\* and the blob are the same before and after the call, and a second call on
\* the same state returns the same menu and the same counts.
C15_ExportPure ==
  [][lastEvent'.name = "copyJSON" =>
       LET first == lastEvent'.input
           second == generateJSON(StoreAfter, now')
       IN /\ TablesUnchanged
          /\ currentOptions' = currentOptions
          /\ storage' = storage
          /\ second.menu = first.menu
          /\ second.metadata.totalCategories = first.metadata.totalCategories
          /\ second.metadata.totalProducts = first.metadata.totalProducts
          /\ second.metadata.totalModifiers = first.metadata.totalModifiers]_vars

\* an export was made while the tables, the buffer and the blob held data
C15_Witness ==
  /\ lastEvent.name = "copyJSON"
  /\ lastEvent.input.menu # <<>>
  /\ modifiers # <<>>
  /\ currentOptions # <<>>
  /\ storage.present

\* the concatenation of a sequence of sequences
RECURSIVE Flatten(_)
Flatten(seqs) ==
  IF seqs = <<>> THEN <<>> ELSE Head(seqs) \o Flatten(Tail(seqs))

\* the products of a document in document order, each with the index of the
\* menu entry that encloses it
DocProducts(menu) ==
  Flatten([i \in 1..Len(menu) |->
             [j \in 1..Len(menu[i].products) |->
                [entry |-> menu[i].products[j], category |-> i]]])

\* the modifiers of a document in document order, each with the index, in
\* DocProducts, of the product that encloses it
DocModifiers(menu) ==
  LET ps == DocProducts(menu)
  IN Flatten([j \in 1..Len(ps) |->
                [k \in 1..Len(ps[j].entry.modifiers) |->
                   [entry |-> ps[j].entry.modifiers[k], product |-> j]]])

\* C16: importJSON fills only absent optional fields with defaults
\* (description "", price 0, image "", min 0, max 1, type 1, position 1,
\* option value 0); a field present in the document, a present 0 included,
\* is stored with the value given.
C16_ImportDefaults ==
  [][(/\ lastEvent'.name \in {"importJSON", "importExported"}
      /\ outcome' = <<"success">>)
     => LET ps == DocProducts(lastEvent'.input.menu)
            ms == DocModifiers(lastEvent'.input.menu)
            number(given, default) == IF given = Undefined THEN default ELSE given
            string(given, default) == IF given = UndefinedStr THEN default ELSE given
        IN /\ Len(products') = Len(ps)
           /\ Len(modifiers') = Len(ms)
           /\ \A j \in 1..Len(ps) :
                /\ products'[j].description = string(ps[j].entry.description, <<>>)
                /\ products'[j].price = number(ps[j].entry.price, 0)
                /\ products'[j].image = string(ps[j].entry.image, <<>>)
           /\ \A k \in 1..Len(ms) :
                /\ modifiers'[k].min = number(ms[k].entry.min, 0)
                /\ modifiers'[k].max = number(ms[k].entry.max, 1)
                /\ modifiers'[k].type = number(ms[k].entry.type, 1)
                /\ modifiers'[k].position = number(ms[k].entry.position, 1)
                /\ Len(modifiers'[k].options) = Len(ms[k].entry.options)
                /\ \A o \in 1..Len(ms[k].entry.options) :
                     modifiers'[k].options[o].value =
                       number(ms[k].entry.options[o].value, 0)]_vars

\* C17: a successful importJSON replaces the three tables: afterwards they
\* hold exactly the records of the document in document order, one category
\* per menu entry, one product per nested product, one modifier per nested
\* modifier, and no record from before the import.
C17_ImportReplaces ==
  [][(/\ lastEvent'.name \in {"importJSON", "importExported"}
      /\ outcome' = <<"success">>)
     => LET menu == lastEvent'.input.menu
            ps == DocProducts(menu)
            ms == DocModifiers(menu)
        IN /\ Len(categories') = Len(menu)
           /\ \A i \in 1..Len(menu) : categories'[i].name = menu[i].name
           /\ Len(products') = Len(ps)
           /\ \A j \in 1..Len(ps) : products'[j].name = ps[j].entry.name
           /\ Len(modifiers') = Len(ms)
           /\ \A k \in 1..Len(ms) :
                /\ modifiers'[k].name = ms[k].entry.name
                /\ Len(modifiers'[k].options) = Len(ms[k].entry.options)
                /\ \A o \in 1..Len(ms[k].entry.options) :
                     modifiers'[k].options[o].label = ms[k].entry.options[o].label]_vars

\* the document of TacoText was imported over tables that held product 1,
\* whose edit closure is still installed; product 1 is gone
C17_Witness ==
  /\ lastEvent.name = "importJSON"
  /\ lastEvent.input = TacoText
  /\ outcome = <<"success">>
  /\ productEdit.active
  /\ productEdit.id = 1
  /\ Len(products) = 1
  /\ products[1].id = 2

\* C18: after a successful importJSON every product's categoryId is the id of
\* the category made from its menu entry and every modifier's productId is the
\* id of the product made from its enclosing product, also when the document
\* gives no id (or 0) and the id is generated; an id the document gives is kept.
C18_ImportLinkage ==
  [][(/\ lastEvent'.name \in {"importJSON", "importExported"}
      /\ outcome' = <<"success">>)
     => LET menu == lastEvent'.input.menu
            ps == DocProducts(menu)
            ms == DocModifiers(menu)
            given(id) == id \notin {Undefined, Null, 0}
        IN /\ Len(categories') = Len(menu)
           /\ Len(products') = Len(ps)
           /\ Len(modifiers') = Len(ms)
           /\ \A i \in 1..Len(menu) :
                given(menu[i].id) => categories'[i].id = menu[i].id
           /\ \A j \in 1..Len(ps) :
                /\ products'[j].categoryId = categories'[ps[j].category].id
                /\ given(ps[j].entry.id) => products'[j].id = ps[j].entry.id
           /\ \A k \in 1..Len(ms) :
                /\ modifiers'[k].productId = products'[ms[k].product].id
                /\ given(ms[k].entry.id) => modifiers'[k].id = ms[k].entry.id]_vars

\* C19: clearAllData, once confirmed, leaves the three tables and the draft
\* buffer empty and removes the blob, from any reachable state; a load right
\* after it yields empty tables.
C19_ClearAllData ==
  [][lastEvent'.name = "clearAllData" =>
       LET loaded == loadFromLocalStorage(StoreAfter)
       IN /\ categories' = <<>>
          /\ products' = <<>>
          /\ modifiers' = <<>>
          /\ currentOptions' = <<>>
          /\ ~storage'.present
          /\ loaded.categories = <<>>
          /\ loaded.products = <<>>
          /\ loaded.modifiers = <<>>]_vars

\* the data was cleared while the edit closure of a modifier was installed:
\* the tables and the blob held that modifier before the call
C19_Witness ==
  /\ lastEvent.name = "clearAllData"
  /\ modifierEdit.active
  /\ events = 3
  /\ modifiers = <<>>
  /\ ~storage.present

\* C20: deleteCategory(id) or deleteProduct(id) with an id that no record of
\* the respective table has leaves categories, products and modifiers
\* unchanged.
C20_DeleteMissingNoOp ==
  [][/\ (/\ lastEvent'.name = "deleteCategory"
         /\ \A i \in 1..Len(categories) : categories[i].id # lastEvent'.input)
        => TablesUnchanged
     /\ (/\ lastEvent'.name = "deleteProduct"
         /\ \A j \in 1..Len(products) : products[j].id # lastEvent'.input)
        => TablesUnchanged]_vars

\* C21: deleteProduct(id) removes exactly the products with that id and
\* exactly the modifiers whose productId is that id; the categories table and
\* every other product and modifier are unchanged and keep their order.
C21_DeleteProductCascade ==
  [][lastEvent'.name = "deleteProduct" =>
       LET id == lastEvent'.input
           keepProduct(p) == p.id # id
           keepModifier(m) == m.productId # id
       IN /\ categories' = categories
          /\ products' = SelectSeq(products, keepProduct)
          /\ modifiers' = SelectSeq(modifiers, keepModifier)]_vars

\* product 1 of the two products of MenuText was deleted with its modifier;
\* product 2 and its modifier are what is left
C21_Witness ==
  /\ lastEvent.name = "deleteProduct"
  /\ lastEvent.input = 1
  /\ Len(categories) = 2
  /\ Len(products) = 1
  /\ products[1].id = 2
  /\ Len(modifiers) = 1
  /\ modifiers[1].productId = 2

\* C22: deleteModifier(id) removes exactly the modifiers with that id, keeps
\* the order of the others and leaves categories, products and the draft
\* buffer unchanged.
C22_DeleteModifierFrame ==
  [][lastEvent'.name = "deleteModifier" =>
       LET id == lastEvent'.input
           keepModifier(m) == m.id # id
       IN /\ modifiers' = SelectSeq(modifiers, keepModifier)
          /\ categories' = categories
          /\ products' = products
          /\ currentOptions' = currentOptions]_vars

\* modifier 1 of the two modifiers of MenuText was deleted while the buffer
\* held a draft option
C22_Witness ==
  /\ lastEvent.name = "deleteModifier"
  /\ lastEvent.input = 1
  /\ Len(modifiers) = 1
  /\ modifiers[1].id = 2
  /\ Len(products) = 2
  /\ currentOptions # <<>>

\* C23: after every add, update confirmation, delete or import that changed
\* categories, products or modifiers, the tables kept in the blob equal the
\* tables in memory.
C23_BlobMirrorsMemory ==
  [][(/\ lastEvent'.name \in {"addCategory", "updateCategory", "deleteCategory",
                              "addProduct", "updateProduct", "deleteProduct",
                              "saveModifier", "updateModifier", "deleteModifier",
                              "importJSON", "importExported"}
      /\ ~TablesUnchanged)
     => (/\ storage'.present
         /\ storage'.categories = categories'
         /\ storage'.products = products'
         /\ storage'.modifiers = modifiers')]_vars

\* C24: in every reachable state no two records of one table have the same
\* id, and no two options of one modifier or of the draft buffer have the
\* same id.
C24_IdsUnique ==
  LET distinct(seq) == \A i, j \in 1..Len(seq) : i # j => seq[i].id # seq[j].id
  IN /\ distinct(categories)
     /\ distinct(products)
     /\ distinct(modifiers)
     /\ distinct(currentOptions)
     /\ \A k \in 1..Len(modifiers) : distinct(modifiers[k].options)

\* C25: a click on the add/update button while a category, product or
\* modifier edit is active, with valid values, replaces the fields of the
\* record with the edited id in place and creates no record: the table keeps
\* its length, its ids and its order, and the edited record holds the
\* submitted values.
C25_UpdateInPlace ==
  [][LET sameIds(before, after) ==
           /\ Len(after) = Len(before)
           /\ \A i \in 1..Len(before) : after[i].id = before[i].id
         live(table, id) == \E i \in 1..Len(table) : table[i].id = id
         raw == lastEvent'.input
     IN /\ (/\ lastEvent'.name = "updateCategory"
            /\ live(categories, categoryEdit.id)
            /\ trim(raw) # <<>>
            /\ \A i \in 1..Len(categories) :
                 categories[i].id # categoryEdit.id
                   => toLowerCase(categories[i].name) # toLowerCase(trim(raw)))
           => (/\ sameIds(categories, categories')
               /\ \A i \in 1..Len(categories) :
                    categories[i].id = categoryEdit.id
                      => categories'[i].name = trim(raw))
        /\ (/\ lastEvent'.name = "updateProduct"
            /\ live(products, productEdit.id)
            /\ live(categories, parseInt(raw.category))
            /\ trim(raw.name) # <<>>
            /\ trim(raw.description) # <<>>
            /\ parseFloat(raw.price) > 0
            /\ \A j \in 1..Len(products) :
                 (/\ products[j].id # productEdit.id
                  /\ products[j].categoryId = parseInt(raw.category))
                   => toLowerCase(products[j].name) # toLowerCase(trim(raw.name)))
           => (/\ sameIds(products, products')
               /\ \A j \in 1..Len(products) :
                    products[j].id = productEdit.id
                      => /\ products'[j].name = trim(raw.name)
                         /\ products'[j].price = parseFloat(raw.price)
                         /\ products'[j].categoryId = parseInt(raw.category))
        /\ (/\ lastEvent'.name = "updateModifier"
            /\ live(modifiers, modifierEdit.id)
            /\ live(products, parseInt(raw.product))
            /\ trim(raw.name) # <<>>
            /\ 0 <= parseInt(raw.min)
            /\ parseInt(raw.min) <= parseInt(raw.max)
            /\ currentOptions # <<>>)
           => (/\ sameIds(modifiers, modifiers')
               /\ \A k \in 1..Len(modifiers) :
                    modifiers[k].id = modifierEdit.id
                      => /\ modifiers'[k].name = trim(raw.name)
                         /\ modifiers'[k].max = parseInt(raw.max)
                         /\ modifiers'[k].options = currentOptions)]_vars

\* C26: a click on the update button for a category or product whose id is
\* no longer in its table reports no success, changes no table and adds no
\* record.
C26_UpdateOfMissingRecord ==
  [][(\/ /\ lastEvent'.name = "updateCategory"
         /\ \A i \in 1..Len(categories) : categories[i].id # categoryEdit.id
      \/ /\ lastEvent'.name = "updateProduct"
         /\ \A j \in 1..Len(products) : products[j].id # productEdit.id)
     => (/\ TablesUnchanged
         /\ \A k \in 1..Len(outcome') : outcome'[k] # "success")]_vars

\* C27: the update closure of a product rejects a form if and only if
\* addProduct rejects it, for every categoryId, name, description and price
\* (price 0 included), leaving aside the names that duplicate another product
\* of the category.
C27_UpdateValidatesAsAdd ==
  productEdit.active =>
    \A f \in ProductForms :
      (\A j \in 1..Len(products) :
         products[j].id # productEdit.id
           => /\ products[j].name # UndefinedStr
              /\ \/ products[j].categoryId # parseInt(f.category)
                 \/ toLowerCase(products[j].name) # toLowerCase(trim(f.name)))
      => (addProduct(Store, f, now).outcome = <<"error">>
            <=> updateProduct(Store, f).outcome = <<"error">>)

\* C28: cancelling a modifier edit empties the draft buffer and leaves the
\* edited modifier as it was before the edit began, whatever addOption and
\* removeOption did while the edit was active: editModifier, addOption,
\* removeOption and the cancel leave the modifiers table unchanged.  The
\* buffer is empty after a successful saveModifier as well.
C28_CancelModifierEdit ==
  [][/\ lastEvent'.name = "cancelModifierEdit"
        => (currentOptions' = <<>> /\ modifiers' = modifiers)
     /\ lastEvent'.name \in {"editModifier", "addOption", "removeOption"}
        => modifiers' = modifiers
     /\ (/\ lastEvent'.name \in {"saveModifier", "updateModifier"}
         /\ saveModifier(Store, lastEvent'.input, now).outcome = <<"success">>)
        => currentOptions' = <<>>]_vars

\* an edit was cancelled after the buffer had been changed: the buffer that
\* was discarded is the option list of no modifier of the table
C28_Witness ==
  /\ lastEvent.name = "cancelModifierEdit"
  /\ lastEvent.input # <<>>
  /\ currentOptions = <<>>
  /\ modifiers # <<>>
  /\ \A k \in 1..Len(modifiers) : modifiers[k].options # lastEvent.input

\* C29: deleteCategory is idempotent: from every reachable state and for
\* every id, present or absent, a second deleteCategory(id) right after the
\* first leaves categories, products and modifiers as the first left them.
C29_DeleteCategoryIdempotent ==
  [][lastEvent'.name = "deleteCategory" =>
       LET again == deleteCategory(StoreAfter, lastEvent'.input, now')
       IN /\ again.categories = categories'
          /\ again.products = products'
          /\ again.modifiers = modifiers']_vars

\* a category was deleted from a store that keeps a category, a product and
\* a modifier after the call
C29_Witness ==
  /\ lastEvent.name = "deleteCategory"
  /\ \A i \in 1..Len(categories) : categories[i].id # lastEvent.input
  /\ categories # <<>>
  /\ products # <<>>
  /\ modifiers # <<>>

\* C30: in every export metadata.totalProducts is the number of product
\* entries nested in menu and metadata.totalModifiers the number of modifier
\* entries nested in menu; metadata.totalCategories is the length of menu
\* whenever no category is without products.
C30_MetadataCounts ==
  [][lastEvent'.name = "copyJSON" =>
       LET export == lastEvent'.input
           nestedProducts ==
             Flatten([i \in 1..Len(export.menu) |-> export.menu[i].products])
           nestedModifiers ==
             Flatten([j \in 1..Len(nestedProducts) |-> nestedProducts[j].modifiers])
       IN /\ export.metadata.totalProducts = Len(nestedProducts)
          /\ export.metadata.totalModifiers = Len(nestedModifiers)
          /\ (\A i \in 1..Len(categories) :
                \E j \in 1..Len(products) : products[j].categoryId = categories[i].id)
             => export.metadata.totalCategories = Len(export.menu)]_vars

====
